---- MODULE Spec2Model ----
(***************************************************************************)
(* Model of the RADMC-3D simulation pipeline of ProtoDisk-Sim:             *)
(*   single_run.py  run_single_simulation, run_radmc_command, RawTracker,  *)
(*                  suppress_output                                        *)
(*   terminal_ui.py AdvancedPhaseTracker, print_error                      *)
(*   export.py      log_simulation, SimulationLogbook.add_simulation       *)
(*   naming.py      determine_category                                     *)
(*   main.py        main, run_single_mode, setup_logging, get_params_dict  *)
(*   batch_run.py   run_batch_mode                                         *)
(* The rich console used by terminal_ui.py is modelled by what its markup  *)
(* renderer does with square-bracket tags (rich.markup.render).            *)
(* Spec is a run of run_single_simulation with its solver processes;       *)
(* TrackerSpec is a caller of the tracker interface alone; NamingSpec,     *)
(* LoggingSpec and LogbookSpec are callers of determine_category, of       *)
(* setup_logging and logging, and of add_simulation; MainSpec is a run of  *)
(* the whole program.                                                      *)
(***************************************************************************)
EXTENDS Integers, Sequences, FiniteSets, TLC

(***************************************************************************)
(* Bounds of the model.                                                    *)
(***************************************************************************)
\* number of lines one solver process may write
MaxLines == 2
\* number of lines the pipe between solver and parent holds
PipeCap == 2
\* number of keys a parameter dict given to determine_category holds
MaxKeys == 4
\* number of runs one process sets up logging for
MaxRuns == 3
\* number of log records one process emits
MaxRecords == 3
\* number of processes that add a row to the same logbook
MaxProcs == 2

(***************************************************************************)
(* Text.  A message is a sequence of characters; "a" stands for any        *)
(* character that is neither a bracket, a slash nor a backslash.           *)
(***************************************************************************)
None == "None"

PlainText == <<"a">>
OpenTag == <<"[", "a", "]">>
CloseTag == <<"[", "/", "a", "]">>
LoneBracket == <<"[", "a">>
Blank == <<>>

\* "[dim]" and "[/dim]" as written by run_radmc_command
DimOpen == <<"[", "a", "]">>
DimClose == <<"[", "/", "a", "]">>

Contains(msg, c) == \E i \in 1..Len(msg) : msg[i] = c

RECURSIVE ReplaceBracket(_)
\* str.replace("[", "\\[")
ReplaceBracket(msg) ==
    IF msg = <<>> THEN <<>>
    ELSE IF Head(msg) = "["
         THEN <<"\\", "[">> \o ReplaceBracket(Tail(msg))
         ELSE <<Head(msg)>> \o ReplaceBracket(Tail(msg))

(***************************************************************************)
(* rich.markup: the tag pattern RE_TAGS (optional backslashes, an opening  *)
(* bracket, one character of a-z # / @, then the shortest run of characters*)
(* other than an opening bracket, then a closing bracket) and render().    *)
(***************************************************************************)
TagStart == {"a", "/"}

\* index of the "]" that ends a tag opened by the "[" at j, or 0
TagEnd(msg, j) ==
    IF j + 1 <= Len(msg) /\ msg[j] = "[" /\ msg[j + 1] \in TagStart
    THEN LET stops == {k \in (j + 2)..Len(msg) : msg[k] \in {"[", "]"}}
         IN  IF stops = {} THEN 0
             ELSE LET k == CHOOSE x \in stops : \A y \in stops : x <= y
                  IN  IF msg[k] = "]" THEN k ELSE 0
    ELSE 0

\* number of backslashes immediately before position j
RECURSIVE BackslashesBefore(_, _)
BackslashesBefore(msg, j) ==
    IF j > 1 /\ msg[j - 1] = "\\" THEN 1 + BackslashesBefore(msg, j - 1) ELSE 0

\* index of the topmost entry of stack that equals name, or 0
TopIndexOf(stack, name) ==
    LET hits == {i \in 1..Len(stack) : stack[i] = name}
    IN  IF hits = {} THEN 0 ELSE CHOOSE i \in hits : \A h \in hits : h <= i

RemoveAt(s, i) == SubSeq(s, 1, i - 1) \o SubSeq(s, i + 1, Len(s))

RECURSIVE RenderFrom(_, _, _)
\* render(): walk the markup from position i with the stack of open tags;
\* the result says whether MarkupError is raised and on which tag
RenderFrom(msg, i, stack) ==
    IF i > Len(msg) THEN [raises |-> FALSE, tag |-> <<>>]
    ELSE LET k == TagEnd(msg, i)
         IN  IF k = 0
             THEN RenderFrom(msg, i + 1, stack)
             ELSE IF BackslashesBefore(msg, i) % 2 = 1
             THEN RenderFrom(msg, k + 1, stack)
             ELSE LET name == SubSeq(msg, i + 1, k - 1)
                  IN  IF Head(name) = "/"
                      THEN IF Tail(name) = <<>>
                           THEN IF stack = <<>>
                                THEN [raises |-> TRUE, tag |-> SubSeq(msg, i, k)]
                                ELSE RenderFrom(msg, k + 1,
                                                SubSeq(stack, 1, Len(stack) - 1))
                           ELSE LET p == TopIndexOf(stack, Tail(name))
                                IN  IF p = 0
                                    THEN [raises |-> TRUE, tag |-> SubSeq(msg, i, k)]
                                    ELSE RenderFrom(msg, k + 1, RemoveAt(stack, p))
                      ELSE RenderFrom(msg, k + 1, Append(stack, name))

\* rich.markup.render, reached through Console.print of one string
Render(msg) ==
    IF ~Contains(msg, "[") THEN [raises |-> FALSE, tag |-> <<>>]
    ELSE RenderFrom(msg, 1, <<>>)

(***************************************************************************)
(* Exceptions.  site tells where the exception object was created, so two  *)
(* exceptions of the same type and text are still different objects.       *)
(***************************************************************************)
Exc(type, msg, site) == [type |-> type, msg |-> msg, site |-> site]
NoExc == Exc(None, <<>>, None)

\* str(MarkupError): "closing tag '<tag>' at position N doesn't match ..."
MarkupErrorAt(tag, site) == Exc("MarkupError", PlainText \o tag \o PlainText, site)

(***************************************************************************)
(* terminal_ui.print_error: console.print("[red]x[/red] " + message)       *)
(***************************************************************************)
print_error(message) ==
    Render(OpenTag \o PlainText \o CloseTag \o PlainText \o message)

(***************************************************************************)
(* The phases of run_single_simulation.                                    *)
(***************************************************************************)
PhaseNames ==
    {"Setup", "Configure Model", "MC Thermal", "SED Calculation",
     "Generate Image", "Save Files"}

\* a phase list that holds Generate Image whatever make_images says
BuildPhases_always(mk) ==
    <<"Setup", "Configure Model", "MC Thermal", "SED Calculation",
      "Generate Image", "Save Files">>

\* phases = [...]; if make_images: phases.append("Generate Image"); ...
BuildPhases(mk) ==
    <<"Setup", "Configure Model", "MC Thermal", "SED Calculation">>
    \o (IF mk THEN <<"Generate Image">> ELSE <<>>)
    \o <<"Save Files">>

\* list.index(name), 0-based; -1 stands for ValueError
IndexOf(seq, name) ==
    IF \E i \in 1..Len(seq) : seq[i] = name
    THEN (CHOOSE i \in 1..Len(seq) :
             seq[i] = name /\ \A j \in 1..(i - 1) : seq[j] # name) - 1
    ELSE -1

(***************************************************************************)
(* The two trackers.  Every operation takes the tracker and returns        *)
(*   t      the tracker after the call                                     *)
(*   out    the number of lines the call printed                           *)
(*   exc    the exception the call raised, or NoExc                        *)
(***************************************************************************)
Ret(t, out) == [t |-> t, out |-> out, exc |-> NoExc]
Raise(t, e) == [t |-> t, out |-> 0, exc |-> e]

\* RawTracker() has no fields at all
RawTracker == [kind |-> "raw"]

\* AdvancedPhaseTracker.__init__
AdvancedPhaseTracker(phs) ==
    [kind |-> "advanced",
     phases |-> phs,
     current_phase_idx |-> -1,
     phase_start_time |-> FALSE,
     phase_times |-> {},
     live |-> FALSE,
     overall_completed |-> 0,
     task_total |-> <<>>,
     task_completed |-> 0,
     task_visible |-> FALSE]

\* "if "[" in message and "]" not in message:
\*      message = message.replace("[", "\\[")"
LogEscape(message) ==
    IF Contains(message, "[") /\ ~Contains(message, "]")
    THEN ReplaceBracket(message) ELSE message

\* AdvancedPhaseTracker.log
AdvLog(t, message) ==
    LET r == Render(<<"a", "a">> \o LogEscape(message))
    IN  IF r.raises THEN Raise(t, MarkupErrorAt(r.tag, "log")) ELSE Ret(t, 1)

\* markup of "[bold bright_green]->[/bold bright_green] Starting: [..]name[/..]"
PhaseBanner == OpenTag \o PlainText \o CloseTag \o PlainText
               \o OpenTag \o PlainText \o CloseTag

Trk_start(t) ==
    IF t.kind = "raw" THEN Ret(t, 0)
    ELSE Ret([t EXCEPT !.live = TRUE], 0)

Trk_stop(t) ==
    IF t.kind = "raw" THEN Ret(t, 0)
    ELSE Ret([t EXCEPT !.live = FALSE], 0)

\* a raw tracker whose log prints the message
Trk_log_print(t, message) ==
    IF t.kind = "raw" THEN Ret(t, 1)
    ELSE AdvLog(t, message)

Trk_log(t, message) ==
    IF t.kind = "raw" THEN Ret(t, 0)
    ELSE AdvLog(t, message)

Trk_set_phase_total(t, n) ==
    IF t.kind = "raw" THEN Ret(t, 0)
    ELSE Ret([t EXCEPT !.task_total = <<n>>, !.task_completed = 0], 0)

Trk_update_progress(t, n) ==
    IF t.kind = "raw" THEN Ret(t, 0)
    ELSE Ret([t EXCEPT !.task_completed = n], 0)

\* progress.reset and progress.update(total=None) leave the task's total as
\* it is: rich reads total=None as "no new total"
Trk_start_phase(t, name) ==
    IF t.kind = "raw" THEN Ret(t, 1)
    ELSE LET idx == IndexOf(t.phases, name)
         IN  IF idx = -1
             THEN Raise(t, Exc("ValueError", PlainText, "start_phase"))
             ELSE LET t1 == [t EXCEPT !.current_phase_idx = idx,
                                      !.phase_start_time = TRUE,
                                      !.overall_completed = idx,
                                      !.task_completed = 0,
                                      !.task_visible = TRUE]
                      r == AdvLog(t1, PhaseBanner)
                  IN  r

Trk_complete_phase(t, name) ==
    IF t.kind = "raw" THEN Ret(t, 1)
    ELSE LET t1 == IF t.phase_start_time
                   THEN [t EXCEPT !.phase_times = @ \cup {name}]
                   ELSE t
             r == IF t.phase_start_time THEN AdvLog(t1, PhaseBanner)
                  ELSE Ret(t1, 0)
         IN  IF r.exc # NoExc THEN r
             ELSE [r EXCEPT !.t = [t1 EXCEPT
                      !.overall_completed = t1.current_phase_idx + 1,
                      !.task_completed = 100]]

\* a summary with a row for each of the six phases of the pipeline
SummaryRows_pipeline(t) ==
    IF t.kind = "raw" THEN <<>>
    ELSE [i \in 1..Len(BuildPhases(TRUE)) |->
            <<BuildPhases(TRUE)[i],
              IF BuildPhases(TRUE)[i] \in t.phase_times
              THEN "time" ELSE "skipped">>]

\* the rows of print_summary: "for phase in self.phases:" with the time
\* when "phase in self.phase_times", else "skipped"; RawTracker prints none
SummaryRows(t) ==
    IF t.kind = "raw" THEN <<>>
    ELSE [i \in 1..Len(t.phases) |->
            <<t.phases[i],
              IF t.phases[i] \in t.phase_times THEN "time" ELSE "skipped">>]

\* print_summary: ok tells whether the console accepted the output
Trk_print_summary(t, ok) ==
    IF t.kind = "raw" THEN Ret(t, 0)
    ELSE IF ok THEN Ret(t, 1 + Len(SummaryRows(t)))
         ELSE Raise(t, Exc("OSError", PlainText, "print_summary"))

(***************************************************************************)
(* run_radmc_command: the expected total and the solver's output lines.    *)
(***************************************************************************)
\* values of params['nphot'] / params['nphot_spec'], as Python would print them
TotalInputs == {"None", "0", "2", "-1", "2e0", "abc", "inf"}

\* bool(total_photons)
Truthy(x) == x \notin {"None", "0"}

\* int(float(total_photons))
IntFloat(x) ==
    CASE x = "2" -> [ok |-> TRUE, value |-> 2, error |-> None]
      [] x = "0" -> [ok |-> TRUE, value |-> 0, error |-> None]
      [] x = "-1" -> [ok |-> TRUE, value |-> -1, error |-> None]
      [] x = "2e0" -> [ok |-> TRUE, value |-> 2, error |-> None]
      [] x = "abc" -> [ok |-> FALSE, value |-> 0, error |-> "ValueError"]
      [] x = "inf" -> [ok |-> FALSE, value |-> 0, error |-> "OverflowError"]
      [] OTHER -> [ok |-> FALSE, value |-> 0, error |-> "TypeError"]

\* a line of solver output: its text after strip(), and the number that
\* photon_pattern finds in it (-1: the pattern does not match)
Line(text, photon) == [text |-> text, photon |-> photon]
SolverLines ==
    {Line(Blank, -1), Line(PlainText, -1), Line(PlainText, 1),
     Line(CloseTag, -1), Line(CloseTag, 1), Line(LoneBracket, -1)}

\* a loop that looks for the photon number whatever the expected total is
PhotonUpdate_unguarded(total, line) == line.photon >= 0

\* "if total_photons: match = photon_pattern.search(clean_line); if match:"
PhotonUpdate(total, line) == Truthy(total) /\ line.photon >= 0

ExitCodes == {0, 1}
\* exit status of a child killed by SIGPIPE
SigPipe == 0 - 13

SolverPhases == {"MC Thermal", "SED Calculation", "Generate Image"}

(***************************************************************************)
(* naming.py: determine_category.  A parameter value is absent, a number,  *)
(* a list of numbers or a bool; the dict is the list of its (key, value)   *)
(* pairs in insertion order.                                               *)
(***************************************************************************)
Absent == [kind |-> "absent", v |-> <<>>]
Scalar(x) == [kind |-> "scalar", v |-> <<x>>]
Vector(s) == [kind |-> "vector", v |-> s]
Bool(b) == [kind |-> "bool", v |-> <<IF b THEN 1 ELSE 0>>]

\* the keys determine_category reads, in the order it reads them
FeatureKeys ==
    <<"h_spiral_amp", "sig_spiral_amp", "n_arms", "h_vortex_amp",
      "sig_vortex_amp", "h_fourier_aj", "h_fourier_bj", "sig_fourier_aj",
      "sig_fourier_bj", "enable_warp", "use_inner_edge_shadow",
      "use_radial_damping">>

Reverse(s) == [i \in 1..Len(s) |-> s[Len(s) + 1 - i]]

\* the dict with the present keys of p inserted in the order of keys
Dict(p, keys) ==
    SelectSeq([i \in 1..Len(keys) |-> <<keys[i], p[keys[i]]>>],
              LAMBDA kv : kv[2] # Absent)

\* a get that takes the value of whatever key was inserted first
Get_first(d, key, default) ==
    IF d # <<>> THEN d[1][2] ELSE default

\* dict.get(key, default)
Get(d, key, default) ==
    IF \E i \in 1..Len(d) : d[i][1] = key
    THEN d[CHOOSE i \in 1..Len(d) : d[i][1] = key][2]
    ELSE default

\* "x > 0" for a number or a bool
Positive(x) == x.v[1] > 0

\* any(v > 0 for v in x) for a list
AnyPositive(x) == \E i \in 1..Len(x.v) : x.v[i] > 0

\* any(v != 0 for v in x) for a list
AnyNonzero(x) == \E i \in 1..Len(x.v) : x.v[i] # 0

\* a spiral token without the number of arms
SpiralTokens_plain(d) ==
    IF \/ Positive(Get(d, "h_spiral_amp", Scalar(0)))
       \/ Positive(Get(d, "sig_spiral_amp", Scalar(0)))
    THEN <<"spiral">>
    ELSE <<>>

\* the spiral token: f'spiral_{n_arms}arms' when n_arms > 0, else 'spiral'
SpiralTokens(d) ==
    IF \/ Positive(Get(d, "h_spiral_amp", Scalar(0)))
       \/ Positive(Get(d, "sig_spiral_amp", Scalar(0)))
    THEN LET n_arms == Get(d, "n_arms", Scalar(0))
         IN  IF Positive(n_arms)
             THEN <<"spiral_" \o ToString(n_arms.v[1]) \o "arms">>
             ELSE <<"spiral">>
    ELSE <<>>

\* has_vortex: "if isinstance(vortex_h, (list, tuple)): any(...) or any(...)
\* else: vortex_h > 0 or vortex_sig > 0"; iterating a number and comparing a
\* list with 0 raise TypeError, and "or" does not evaluate its right side
\* when the left one is true
HasVortex(d) ==
    LET vortex_h == Get(d, "h_vortex_amp", Vector(<<0, 0>>))
        vortex_sig == Get(d, "sig_vortex_amp", Vector(<<0, 0>>))
    IN  IF vortex_h.kind = "vector"
        THEN IF AnyPositive(vortex_h) THEN [exc |-> None, value |-> TRUE]
             ELSE IF vortex_sig.kind = "vector"
                  THEN [exc |-> None, value |-> AnyPositive(vortex_sig)]
                  ELSE [exc |-> "TypeError", value |-> FALSE]
        ELSE IF Positive(vortex_h) THEN [exc |-> None, value |-> TRUE]
             ELSE IF vortex_sig.kind = "scalar"
                  THEN [exc |-> None, value |-> Positive(vortex_sig)]
                  ELSE [exc |-> "TypeError", value |-> FALSE]

HasFourier(d) ==
    \/ AnyNonzero(Get(d, "h_fourier_aj", Vector(<<0, 0, 0, 0, 0>>)))
    \/ AnyNonzero(Get(d, "h_fourier_bj", Vector(<<0, 0, 0, 0, 0>>)))
    \/ AnyNonzero(Get(d, "sig_fourier_aj", Vector(<<0, 0, 0, 0, 0>>)))
    \/ AnyNonzero(Get(d, "sig_fourier_bj", Vector(<<0, 0, 0, 0, 0>>)))

\* "if params.get(key, False):"
Flag(d, key) == Get(d, key, Bool(FALSE)).v[1] # 0

\* active_features once every check has run; has is the vortex test
ActiveFeatures(d, has) ==
    SpiralTokens(d)
    \o (IF has THEN <<"vortex">> ELSE <<>>)
    \o (IF HasFourier(d) THEN <<"fourier">> ELSE <<>>)
    \o (IF Flag(d, "enable_warp") THEN <<"warp">> ELSE <<>>)
    \o (IF Flag(d, "use_inner_edge_shadow") THEN <<"inner_edge">> ELSE <<>>)
    \o (IF Flag(d, "use_radial_damping") THEN <<"damping">> ELSE <<>>)

RECURSIVE Join(_)
\* '_'.join(tokens)
Join(tokens) ==
    IF Len(tokens) = 0 THEN ""
    ELSE IF Len(tokens) = 1 THEN tokens[1]
    ELSE tokens[1] \o "_" \o Join(Tail(tokens))

\* 'baseline', the one token, or 'combined_' + '_'.join(active_features)
Compose(tokens) ==
    IF Len(tokens) = 0 THEN "baseline"
    ELSE IF Len(tokens) = 1 THEN tokens[1]
    ELSE "combined_" \o Join(tokens)

\* what a call gives: the exception it raised, or None and the string
NotCalled == [exc |-> None, value |-> ""]
Returned(s) == [exc |-> None, value |-> s]
Raised(ty) == [exc |-> ty, value |-> ""]

determine_category(d) ==
    LET has == HasVortex(d)
    IN  IF has.exc # None THEN Raised(has.exc)
        ELSE Returned(Compose(ActiveFeatures(d, has.value)))

\* the parameter values a call is tried with
ParamValues ==
    [h_spiral_amp : {Absent, Scalar(0), Scalar(1)},
     sig_spiral_amp : {Absent, Scalar(1)},
     n_arms : {Absent, Scalar(2)},
     h_vortex_amp : {Absent, Scalar(0), Scalar(1), Vector(<<0, 0>>),
                     Vector(<<0, 1>>)},
     sig_vortex_amp : {Absent, Scalar(0), Scalar(1), Vector(<<0, 0>>),
                       Vector(<<0, 1>>)},
     h_fourier_aj : {Absent, Vector(<<0, 0>>), Vector(<<0, -1>>)},
     h_fourier_bj : {Absent, Vector(<<1, 0>>)},
     sig_fourier_aj : {Absent, Vector(<<1, 0>>)},
     sig_fourier_bj : {Absent, Vector(<<1, 0>>)},
     enable_warp : {Absent, Bool(FALSE), Bool(TRUE)},
     use_inner_edge_shadow : {Absent, Bool(TRUE)},
     use_radial_damping : {Absent, Bool(TRUE)}]

\* the keys that p holds
Present(p) == {k \in DOMAIN p : p[k] # Absent}

\* insertion orders of the keys
KeyOrders == {FeatureKeys, Reverse(FeatureKeys)}

(***************************************************************************)
(* State.                                                                  *)
(***************************************************************************)
VARIABLES
    ui_mode,          \* 'advanced' or 'raw'
    make_images,      \* argument of run_single_simulation
    phases,           \* the phase list built at the start
    use_silencer,     \* whether the Python calls run inside suppress_output
    fds,              \* the descriptor table: what each descriptor refers to
    silencer,         \* suppress_output's devnull, old_stdout, old_stderr
    tracker,          \* the tracker object
    pc,               \* position in run_single_simulation
    phase,            \* the phase the orchestrator is working on
    events,           \* start_phase / complete_phase calls, in order
    trackerOut,       \* lines printed by tracker operations
    stops,            \* calls of tracker.stop()
    summaries,        \* calls of tracker.print_summary()
    summary,          \* the rows print_summary has rendered
    afterStop,        \* tracker operations called after the first stop()
    logbook,          \* log_simulation: "none", "SUCCESS" or "raised"
    e,                \* the exception caught by the except clause
    outcome,          \* how run_single_simulation left: kind and exception
    errorLog,         \* logging.error calls: <<origin, exception site>>
    trackerErr,       \* tracker.log calls that report an error
    printed,          \* print_error calls
    cmd_pc,           \* position in run_radmc_command
    total_photons,    \* argument of run_radmc_command
    resolved,         \* shutil.which(cmd_args[0])
    process,          \* the solver process: state, stdout, lines written, rc
    pipe,             \* lines written by the solver and not yet read
    produced,         \* the lines the solver has written into the pipe
    return_code,      \* what wait() / call() returned, <<>> before that
    cmd_result,       \* how run_radmc_command left: "none", "returned", "raised"
    cmdCalls,         \* tracker operations called by this run_radmc_command
    params,           \* naming: the parameter values, key by key
    key_order,        \* naming: the insertion order of the keys of the dict
    category,         \* naming: what determine_category gave
    again,            \* naming: what a second call gave
    root_handlers,    \* logging: the files the root logger's handlers write
    run,              \* logging: the run the process is in, 0 before the first
    records,          \* logging: the records emitted: run, kind and file
    central,          \* logbook: the central file: whether it exists, its rows
    lock,             \* logbook: the process that holds the file lock, or 0
    lb_pc,            \* logbook: each process's position in add_simulation
    updated_df,       \* logbook: each process's updated_df
    backup,           \* logbook: the rows in each run's backup file
    user,             \* main: what the user types at the prompts
    main_pc,          \* main: position in main()
    run_mode,         \* main: 'single' or 'batch'
    simulations,      \* main: the run_single_simulation calls made, in order
    top_exc,          \* main: the exception that reached the top level
    exit_code         \* main: the exit status of the program, <<>> before

vars == <<ui_mode, make_images, phases, use_silencer, fds, silencer, tracker,
          pc, phase, events, trackerOut, stops,
          summaries, summary, afterStop, logbook, e, outcome, errorLog,
          trackerErr,
          printed, cmd_pc, total_photons, resolved, process, pipe, produced,
          return_code, cmd_result, cmdCalls, params, key_order, category,
          again, root_handlers, run, records, central, lock, lb_pc,
          updated_df, backup, user, main_pc, run_mode, simulations, top_exc,
          exit_code>>

inputVars == <<ui_mode, make_images, phases, use_silencer>>
fdVars == <<fds, silencer>>
trackVars == <<tracker, events, trackerOut, stops, summaries, summary,
               afterStop>>
errVars == <<e, outcome, errorLog, trackerErr, printed>>
cmdVars == <<cmd_pc, total_photons, resolved, return_code, cmd_result, cmdCalls>>
procVars == <<process, pipe, produced>>
namingVars == <<params, key_order, category, again>>
loggingVars == <<root_handlers, run, records>>
logbookVars == <<central, lock, lb_pc, updated_df, backup>>
mainVars == <<user, main_pc, run_mode, simulations, top_exc, exit_code>>
\* the state of the components that run_single_simulation does not touch
sideVars == <<namingVars, loggingVars, logbookVars, mainVars>>
\* the state of run_single_simulation, run_radmc_command and the tracker
runVars == <<inputVars, fdVars, trackVars, errVars, cmdVars, procVars, pc,
             phase, logbook>>

(***************************************************************************)
(* suppress_output: the process's descriptors.                             *)
(***************************************************************************)
Descriptors == 1..5

\* descriptor 1 on the terminal's output, 2 on its error stream, the others
\* free
StandardFds ==
    [d \in Descriptors |->
        IF d = 1 THEN "stdout" ELSE IF d = 2 THEN "stderr" ELSE "closed"]

\* open() and os.dup() take the lowest free descriptor
LowestFree(f) ==
    CHOOSE d \in Descriptors :
        f[d] = "closed" /\ \A c \in Descriptors : c < d => f[c] # "closed"

NoSilencer == [devnull |-> 0, old_stdout |-> 0, old_stderr |-> 0]

\* open(os.devnull, "w"); old_stdout = os.dup(1); old_stderr = os.dup(2);
\* os.dup2(devnull.fileno(), 1); os.dup2(devnull.fileno(), 2)
EnterSuppress(f) ==
    LET dn == LowestFree(f)
        f1 == [f EXCEPT ![dn] = "devnull"]
        os == LowestFree(f1)
        f2 == [f1 EXCEPT ![os] = f1[1]]
        oe == LowestFree(f2)
        f3 == [f2 EXCEPT ![oe] = f2[2]]
    IN  [fds |-> [f3 EXCEPT ![1] = f3[dn], ![2] = f3[dn]],
         silencer |-> [devnull |-> dn, old_stdout |-> os, old_stderr |-> oe]]

\* a finally clause that restores 1 and 2 and closes nothing
ExitSuppress_leak(f, s) ==
    [f EXCEPT ![1] = f[s.old_stdout], ![2] = f[s.old_stderr]]

\* finally: os.dup2(old_stdout, 1); os.dup2(old_stderr, 2);
\* os.close(old_stdout); os.close(old_stderr); then "with open(...)" closes
\* devnull
ExitSuppress(f, s) ==
    [f EXCEPT ![1] = f[s.old_stdout], ![2] = f[s.old_stderr],
              ![s.old_stdout] = "closed", ![s.old_stderr] = "closed",
              ![s.devnull] = "closed"]

\* a silencer that is used in raw mode too
UseSilencer_always(mode) == TRUE

\* "if ui_mode == 'advanced': ... use_silencer = True else: ... False"
UseSilencer(mode) == mode = "advanced"

\* the phases whose Python call is wrapped in "if use_silencer: with
\* suppress_output():"
Silenced(ph) == use_silencer /\ ph \in {"Setup", "Configure Model"}

\* the call inside the block
SilencedCallee(ph) ==
    IF ph = "Setup" THEN "writeDefaultParfile" ELSE "problemSetupDust"

\* no determine_category call is under way
NamingIdle ==
    /\ params = [k \in {FeatureKeys[i] : i \in 1..Len(FeatureKeys)} |-> Absent]
    /\ key_order = FeatureKeys
    /\ category = NotCalled
    /\ again = NotCalled

\* a process that has not configured logging
LoggingIdle ==
    /\ root_handlers = <<>>
    /\ run = 0
    /\ records = <<>>

\* the processes that call add_simulation; process p adds the row p
Procs == 1..MaxProcs

\* no logbook file, nobody in add_simulation
LogbookIdle ==
    /\ central = [exists |-> FALSE, rows |-> <<>>]
    /\ lock = 0
    /\ lb_pc = [p \in Procs |-> "idle"]
    /\ updated_df = [p \in Procs |-> <<>>]
    /\ backup = [p \in Procs |-> <<>>]

\* run_single_simulation or a component of it is called on its own
MainIdle ==
    /\ user = [name |-> "run", config_found |-> TRUE, mode_choice |-> "1"]
    /\ main_pc = "none"
    /\ run_mode = None
    /\ simulations = <<>>
    /\ top_exc = None
    /\ exit_code = <<>>

SideIdle == NamingIdle /\ LoggingIdle /\ LogbookIdle /\ MainIdle

NoProcess == [state |-> "none", stdout |-> "none", written |-> 0, rc |-> 0]

Init ==
    /\ ui_mode \in {"advanced", "raw"}
    /\ make_images \in BOOLEAN
    /\ phases = BuildPhases(make_images)
    /\ tracker = IF ui_mode = "advanced"
                 THEN AdvancedPhaseTracker(phases)
                 ELSE RawTracker
    /\ use_silencer = UseSilencer(ui_mode)
    /\ fds = StandardFds
    /\ silencer = NoSilencer
    /\ pc = "start"
    /\ phase = None
    /\ events = <<>>
    /\ trackerOut = 0
    /\ stops = 0
    /\ summaries = 0
    /\ summary = <<>>
    /\ afterStop = {}
    /\ logbook = "none"
    /\ e = NoExc
    /\ outcome = [kind |-> "running", exc |-> NoExc]
    /\ errorLog = {}
    /\ trackerErr = 0
    /\ printed = 0
    /\ cmd_pc = "idle"
    /\ total_photons = "None"
    /\ resolved = FALSE
    /\ process = NoProcess
    /\ pipe = <<>>
    /\ produced = <<>>
    /\ return_code = <<>>
    /\ cmd_result = "none"
    /\ cmdCalls = <<>>
    /\ SideIdle

(***************************************************************************)
(* Helpers of the actions.                                                 *)
(***************************************************************************)
\* the operations called after tracker.stop() was called
NoteCall(op) == IF stops > 0 THEN afterStop \cup {op} ELSE afterStop

\* an order that leaves out Configure Model
NextPhase_skip(ph, mk) ==
    CASE ph = "Setup" -> "MC Thermal"
      [] ph = "MC Thermal" -> "SED Calculation"
      [] ph = "SED Calculation" -> IF mk THEN "Generate Image" ELSE "Save Files"
      [] ph = "Generate Image" -> "Save Files"
      [] OTHER -> None

\* the straight-line order of the phase blocks of run_single_simulation;
\* "if make_images:" is evaluated after SED Calculation
NextPhase(ph, mk) ==
    CASE ph = "Setup" -> "Configure Model"
      [] ph = "Configure Model" -> "MC Thermal"
      [] ph = "MC Thermal" -> "SED Calculation"
      [] ph = "SED Calculation" -> IF mk THEN "Generate Image" ELSE "Save Files"
      [] ph = "Generate Image" -> "Save Files"
      [] OTHER -> None

\* a runner that never looks at the exit status
CommandFailed_never(rc) == FALSE

\* "if return_code != 0:"
CommandFailed(rc) == rc # 0

\* where control goes once run_radmc_command has returned
AfterCommand(ph) == IF ph = "Generate Image" THEN "post_cmd" ELSE "complete_phase"

\* an error that is not written to the log file
LogError_drop(log, origin, ex) == log

\* logging.error(...) of run_radmc_command and of the except clause
LogError(log, origin, ex) == log \cup {<<origin, ex.site>>}

\* a logbook failure that is not swallowed
AfterLogbook_propagate(ok) == IF ok THEN "summary" ELSE "except"

\* "except Exception: pass" around log_simulation
AfterLogbook(ok) == "summary"

\* leave the try block with exception ex
Throw(ex) ==
    /\ e' = ex
    /\ pc' = "except"

(***************************************************************************)
(* run_single_simulation                                                   *)
(***************************************************************************)
\* tracker.start()
TrackerStart ==
    /\ pc = "start"
    /\ LET r == Trk_start(tracker)
       IN  /\ tracker' = r.t
           /\ trackerOut' = trackerOut + r.out
    /\ afterStop' = NoteCall("start")
    /\ pc' = "start_phase"
    /\ phase' = "Setup"
    /\ UNCHANGED <<inputVars, fdVars, sideVars, events, stops, summaries,
                   summary, logbook, errVars, cmdVars, procVars>>

\* tracker.start_phase(name); log_phase_start(name)
StartPhase ==
    /\ pc = "start_phase"
    /\ LET r == Trk_start_phase(tracker, phase)
       IN  /\ tracker' = r.t
           /\ trackerOut' = trackerOut + r.out
           /\ IF r.exc # NoExc
              THEN /\ Throw(r.exc)
                   /\ UNCHANGED events
              ELSE /\ events' = Append(events, <<"start_phase", phase>>)
                   /\ pc' = "body"
                   /\ UNCHANGED e
    /\ afterStop' = NoteCall("start_phase")
    /\ UNCHANGED <<inputVars, fdVars, sideVars, phase, stops, summaries,
                   summary, logbook, outcome, errorLog, trackerErr, printed,
                   cmdVars, procVars>>

\* the bodies of Setup, Configure Model and Save Files when no silencer is
\* used: calls into radmc3dPy, params[...] lookups and file operations, any
\* of which may raise
PythonBody ==
    /\ pc = "body"
    /\ phase \in {"Setup", "Configure Model", "Save Files"}
    /\ ~Silenced(phase)
    /\ LET r == IF phase = "Configure Model"
                THEN Trk_log(tracker, PlainText)
                ELSE Ret(tracker, 0)
       IN  /\ tracker' = r.t
           /\ trackerOut' = trackerOut + r.out
    /\ afterStop' = IF phase = "Configure Model" THEN NoteCall("log") ELSE afterStop
    /\ \E ok \in BOOLEAN, ty \in {"KeyError", "OSError"} :
          IF ok
          THEN /\ pc' = "complete_phase"
               /\ UNCHANGED e
          ELSE Throw(Exc(ty, PlainText, phase))
    /\ UNCHANGED <<inputVars, fdVars, sideVars, phase, events, stops,
                   summaries, summary, logbook, outcome, errorLog, trackerErr,
                   printed, cmdVars, procVars>>

\* a silenced phase up to its "with suppress_output():": Setup has nothing
\* there; Configure Model calls tracker.log("Writing input files...") and
\* reads params[...], which may raise KeyError
SilencedBody ==
    /\ pc = "body"
    /\ Silenced(phase)
    /\ LET r == IF phase = "Configure Model"
                THEN Trk_log(tracker, PlainText)
                ELSE Ret(tracker, 0)
       IN  /\ tracker' = r.t
           /\ trackerOut' = trackerOut + r.out
    /\ afterStop' = IF phase = "Configure Model" THEN NoteCall("log") ELSE afterStop
    /\ \E ok \in BOOLEAN :
          IF ok \/ phase = "Setup"
          THEN /\ pc' = "suppress"
               /\ UNCHANGED e
          ELSE Throw(Exc("KeyError", PlainText, phase))
    /\ UNCHANGED <<inputVars, fdVars, sideVars, phase, events, stops,
                   summaries, summary, logbook, outcome, errorLog, trackerErr,
                   printed, cmdVars, procVars>>

\* suppress_output() up to its yield
SuppressEnter ==
    /\ pc = "suppress"
    /\ fds' = EnterSuppress(fds).fds
    /\ silencer' = EnterSuppress(fds).silencer
    /\ pc' = "inside"
    /\ UNCHANGED <<inputVars, sideVars, phase, trackVars, logbook, errVars,
                   cmdVars, procVars>>

\* analyze.writeDefaultParfile(...) or setup.problemSetupDust(...) inside the
\* block: it returns or raises
SilencedCall ==
    /\ pc = "inside"
    /\ \E ok \in BOOLEAN :
          e' = IF ok THEN NoExc
               ELSE Exc("OSError", PlainText, SilencedCallee(phase))
    /\ pc' = "unsuppress"
    /\ UNCHANGED <<inputVars, fdVars, sideVars, phase, trackVars, logbook,
                   outcome, errorLog, trackerErr, printed, cmdVars, procVars>>

\* suppress_output() after its yield: the finally clause and the end of
\* "with open(os.devnull)"; an exception raised in the block goes on to
\* the except clause of run_single_simulation
SuppressExit ==
    /\ pc = "unsuppress"
    /\ fds' = ExitSuppress(fds, silencer)
    /\ silencer' = NoSilencer
    /\ pc' = IF e # NoExc THEN "except" ELSE "after_block"
    /\ UNCHANGED <<inputVars, sideVars, phase, trackVars, logbook, errVars,
                   cmdVars, procVars>>

\* a silenced phase after its block: Configure Model appends to radmc3d.inp
\* (open and params[...] may raise); then log_phase_end
AfterBlock ==
    /\ pc = "after_block"
    /\ \E ok \in BOOLEAN, ty \in {"KeyError", "OSError"} :
          IF ok \/ phase = "Setup"
          THEN /\ pc' = "complete_phase"
               /\ UNCHANGED e
          ELSE Throw(Exc(ty, PlainText, phase))
    /\ UNCHANGED <<inputVars, fdVars, sideVars, phase, trackVars, logbook,
                   outcome, errorLog, trackerErr, printed, cmdVars, procVars>>

\* the work of Generate Image after the solver has run: readImage, writeFits,
\* savefig, shutil.move
ImagePost ==
    /\ pc = "post_cmd"
    /\ \E ok \in BOOLEAN :
          IF ok
          THEN /\ pc' = "complete_phase"
               /\ UNCHANGED e
          ELSE Throw(Exc("OSError", PlainText, phase))
    /\ UNCHANGED <<inputVars, fdVars, sideVars, phase, trackVars, logbook,
                   outcome, errorLog, trackerErr, printed, cmdVars, procVars>>

\* log_phase_end(name, phase_start); tracker.complete_phase(name)
CompletePhase ==
    /\ pc = "complete_phase"
    /\ LET r == Trk_complete_phase(tracker, phase)
       IN  /\ tracker' = r.t
           /\ trackerOut' = trackerOut + r.out
           /\ IF r.exc # NoExc
              THEN /\ Throw(r.exc)
                   /\ UNCHANGED <<events, phase>>
              ELSE /\ events' = Append(events, <<"complete_phase", phase>>)
                   /\ pc' = IF phase = "Save Files" THEN "stop" ELSE "start_phase"
                   /\ phase' = NextPhase(phase, make_images)
                   /\ UNCHANGED e
    /\ afterStop' = NoteCall("complete_phase")
    /\ UNCHANGED <<inputVars, fdVars, sideVars, stops, summaries, summary,
                   logbook, outcome, errorLog, trackerErr, printed, cmdVars,
                   procVars>>

\* tracker.stop() at the end of the try block
TrackerStop ==
    /\ pc = "stop"
    /\ LET r == Trk_stop(tracker)
       IN  /\ tracker' = r.t
           /\ trackerOut' = trackerOut + r.out
    /\ afterStop' = NoteCall("stop")
    /\ stops' = stops + 1
    /\ pc' = "logbook"
    /\ UNCHANGED <<inputVars, fdVars, sideVars, phase, events, summaries,
                   summary, logbook, errVars, cmdVars, procVars>>

\* try: log_simulation(..., "SUCCESS") except Exception: pass
LogSimulation ==
    /\ pc = "logbook"
    /\ \E ok \in BOOLEAN :
          /\ logbook' = IF ok THEN "SUCCESS" ELSE "raised"
          /\ IF AfterLogbook(ok) = "summary"
             THEN /\ pc' = "summary"
                  /\ UNCHANGED e
             ELSE Throw(Exc("OSError", PlainText, "log_simulation"))
    /\ UNCHANGED <<inputVars, fdVars, sideVars, phase, trackVars, outcome,
                   errorLog, trackerErr, printed, cmdVars, procVars>>

\* tracker.print_summary()
PrintSummary ==
    /\ pc = "summary"
    /\ \E ok \in BOOLEAN :
          LET r == Trk_print_summary(tracker, ok)
          IN  /\ tracker' = r.t
              /\ trackerOut' = trackerOut + r.out
              /\ IF r.exc # NoExc
                 THEN /\ Throw(r.exc)
                      /\ UNCHANGED summary
                 ELSE /\ pc' = "return"
                      /\ summary' = SummaryRows(tracker)
                      /\ UNCHANGED e
    /\ summaries' = summaries + 1
    /\ afterStop' = NoteCall("print_summary")
    /\ UNCHANGED <<inputVars, fdVars, sideVars, phase, events, stops, logbook,
                   outcome, errorLog, trackerErr, printed, cmdVars, procVars>>

\* return spec, star, grid
Return ==
    /\ pc = "return"
    /\ outcome' = [kind |-> "returned", exc |-> NoExc]
    /\ pc' = "done"
    /\ UNCHANGED <<inputVars, fdVars, sideVars, phase, trackVars, logbook, e,
                   errorLog, trackerErr, printed, cmdVars, procVars>>

\* except Exception as e: tracker.stop(); logging.error(...);
\* print_error(f"Simulation failed: {e}"); raise e
Except ==
    /\ pc = "except"
    /\ LET r == Trk_stop(tracker)
       IN  /\ tracker' = r.t
           /\ trackerOut' = trackerOut + r.out
    /\ afterStop' = NoteCall("stop")
    /\ stops' = stops + 1
    /\ errorLog' = LogError(errorLog, "run_single_simulation", e)
    /\ printed' = printed + 1
    /\ LET pr == print_error(PlainText \o e.msg)
       IN  outcome' = [kind |-> "raised",
                       exc |-> IF pr.raises
                               THEN MarkupErrorAt(pr.tag, "print_error")
                               ELSE e]
    /\ pc' = "done"
    /\ UNCHANGED <<inputVars, fdVars, sideVars, phase, events, summaries,
                   summary, logbook, e, trackerErr, cmdVars, procVars>>

(***************************************************************************)
(* run_radmc_command                                                       *)
(***************************************************************************)
\* markup of "[yellow]Warning: Could not parse total_photons '...'.[/yellow]"
\* and of "[red bold]Process failed with code N[/red bold]"
Tagged(text) == OpenTag \o text \o CloseTag

\* a tracker operation called by run_radmc_command: the operation, its
\* message or number, and the place of the call: the expected total, the
\* loop over the output lines, or the exit status
Call(op, msg, n, origin) == [op |-> op, msg |-> msg, n |-> n, origin |-> origin]

\* go on inside run_radmc_command
CommandContinues(next) ==
    /\ cmd_pc' = next
    /\ UNCHANGED <<cmd_result, pc, e>>

\* leave run_radmc_command normally
CommandReturns ==
    /\ cmd_pc' = "idle"
    /\ cmd_result' = "returned"
    /\ pc' = AfterCommand(phase)
    /\ UNCHANGED e

\* leave run_radmc_command with exception ex
CommandRaises(ex) ==
    /\ cmd_pc' = "idle"
    /\ cmd_result' = "raised"
    /\ Throw(ex)

\* the solver phase builds its command (params[...] lookups; Generate Image
\* logs "Computing image ..." first) and enters run_radmc_command:
\* log_command, shlex.split, shutil.which
RunCommand ==
    /\ pc = "body"
    /\ phase \in SolverPhases
    /\ LET r == IF phase = "Generate Image"
                THEN Trk_log(tracker, PlainText)
                ELSE Ret(tracker, 0)
       IN  /\ tracker' = r.t
           /\ trackerOut' = trackerOut + r.out
    /\ afterStop' = IF phase = "Generate Image" THEN NoteCall("log") ELSE afterStop
    /\ process' = NoProcess
    /\ pipe' = <<>>
    /\ produced' = <<>>
    /\ return_code' = <<>>
    /\ cmdCalls' = <<>>
    /\ \E missing \in BOOLEAN, found \in BOOLEAN,
          tot \in (IF phase = "Generate Image" THEN {"None"} ELSE TotalInputs) :
          IF missing
          THEN \* raised by the caller's params[...] before the call
               /\ Throw(Exc("KeyError", PlainText, phase))
               /\ cmd_result' = "none"
               /\ UNCHANGED <<cmd_pc, total_photons, resolved, errorLog>>
          ELSE /\ total_photons' = tot
               /\ resolved' = found
               /\ IF found
                  THEN /\ cmd_pc' = IF tracker.kind = "raw" THEN "call" ELSE "total"
                       /\ cmd_result' = "none"
                       /\ pc' = "cmd"
                       /\ UNCHANGED <<e, errorLog>>
                  ELSE LET ex == Exc("FileNotFoundError", PlainText, "which")
                       IN  /\ errorLog' = LogError(errorLog, "run_radmc_command", ex)
                           /\ CommandRaises(ex)
    /\ UNCHANGED <<inputVars, fdVars, sideVars, phase, events, stops,
                   summaries, summary, logbook, outcome, trackerErr, printed>>

\* raw mode: subprocess.call(cmd_args) starts the solver on the inherited
\* stdout/stderr
RawCall ==
    /\ pc = "cmd"
    /\ cmd_pc = "call"
    /\ process' = [state |-> "running", stdout |-> "inherit", written |-> 0, rc |-> 0]
    /\ cmd_pc' = "calling"
    /\ UNCHANGED <<inputVars, fdVars, sideVars, pc, phase, trackVars, logbook,
                   errVars, total_photons, resolved, return_code, cmd_result,
                   cmdCalls, pipe, produced>>

\* raw mode: subprocess.call returns the exit status; it is logged and checked
RawCallDone ==
    /\ pc = "cmd"
    /\ cmd_pc = "calling"
    /\ process.state = "exited"
    /\ return_code' = <<process.rc>>
    /\ IF CommandFailed(process.rc)
       THEN LET ex == Exc("RuntimeError", PlainText, "return_code")
            IN  /\ errorLog' = LogError(errorLog, "run_radmc_command", ex)
                /\ CommandRaises(ex)
       ELSE /\ CommandReturns
            /\ UNCHANGED errorLog
    /\ UNCHANGED <<inputVars, fdVars, sideVars, phase, trackVars, logbook,
                   outcome, trackerErr, printed, total_photons, resolved,
                   cmdCalls, procVars>>

\* advanced mode: "if total_photons: try: set_phase_total(int(float(...)))
\* except ValueError: tracker.log(warning)"
AdvTotal ==
    /\ pc = "cmd"
    /\ cmd_pc = "total"
    /\ IF ~Truthy(total_photons)
       THEN /\ CommandContinues("popen")
            /\ UNCHANGED <<tracker, trackerOut, afterStop, cmdCalls>>
       ELSE LET c == IntFloat(total_photons)
            IN  IF c.ok
                THEN LET r == Trk_set_phase_total(tracker, c.value)
                     IN  /\ tracker' = r.t
                         /\ trackerOut' = trackerOut + r.out
                         /\ afterStop' = NoteCall("set_phase_total")
                         /\ cmdCalls' = Append(cmdCalls,
                                Call("set_phase_total", Blank, c.value, "total"))
                         /\ CommandContinues("popen")
                ELSE IF c.error = "ValueError"
                THEN LET r == Trk_log(tracker, Tagged(PlainText))
                     IN  /\ tracker' = r.t
                         /\ trackerOut' = trackerOut + r.out
                         /\ afterStop' = NoteCall("log")
                         /\ cmdCalls' = Append(cmdCalls,
                                Call("log", Tagged(PlainText), 0, "total"))
                         /\ IF r.exc # NoExc
                            THEN CommandRaises(r.exc)
                            ELSE CommandContinues("popen")
                ELSE /\ CommandRaises(Exc(c.error, PlainText, "total_photons"))
                     /\ UNCHANGED <<tracker, trackerOut, afterStop, cmdCalls>>
    /\ UNCHANGED <<inputVars, fdVars, sideVars, phase, events, stops,
                   summaries, summary, logbook, outcome, errorLog, trackerErr,
                   printed, total_photons, resolved, return_code, procVars>>

\* advanced mode: subprocess.Popen(stdout=PIPE, stderr=STDOUT)
AdvPopen ==
    /\ pc = "cmd"
    /\ cmd_pc = "popen"
    /\ process' = [state |-> "running", stdout |-> "pipe", written |-> 0, rc |-> 0]
    /\ pipe' = <<>>
    /\ produced' = <<>>
    /\ cmd_pc' = "read"
    /\ UNCHANGED <<inputVars, fdVars, sideVars, pc, phase, trackVars, logbook,
                   errVars, total_photons, resolved, return_code, cmd_result,
                   cmdCalls>>

\* advanced mode: one turn of "for line in iter(process.stdout.readline, '')"
AdvReadLine ==
    /\ pc = "cmd"
    /\ cmd_pc = "read"
    /\ pipe # <<>>
    /\ LET line == Head(pipe)
           msg == DimOpen \o line.text \o DimClose
           r1 == IF line.text # Blank
                 THEN Trk_log(tracker, msg)
                 ELSE Ret(tracker, 0)
           upd == /\ line.text # Blank
                  /\ r1.exc = NoExc
                  /\ PhotonUpdate(total_photons, line)
           r2 == IF upd THEN Trk_update_progress(r1.t, line.photon) ELSE r1
       IN  /\ tracker' = r2.t
           /\ trackerOut' = trackerOut + r1.out
           /\ afterStop' = IF line.text # Blank THEN NoteCall("log") ELSE afterStop
           /\ cmdCalls' = cmdCalls
                          \o (IF line.text # Blank
                              THEN <<Call("log", msg, 0, "line")>> ELSE <<>>)
                          \o (IF upd
                              THEN <<Call("update_progress", Blank, line.photon,
                                          "line")>>
                              ELSE <<>>)
           /\ IF r1.exc # NoExc
              THEN \* "with process.stdout:" closes the pipe on the way out
                   /\ process' = [process EXCEPT !.stdout = "closed"]
                   /\ pipe' = <<>>
                   /\ CommandRaises(r1.exc)
              ELSE /\ pipe' = Tail(pipe)
                   /\ CommandContinues("read")
                   /\ UNCHANGED process
    /\ UNCHANGED <<inputVars, fdVars, sideVars, phase, events, stops,
                   summaries, summary, logbook, outcome, errorLog, trackerErr,
                   printed, total_photons, resolved, return_code, produced>>

\* a parent that stops reading as soon as the pipe is empty
AdvEOF_early ==
    /\ pc = "cmd"
    /\ cmd_pc = "read"
    /\ pipe = <<>>
    /\ process' = [process EXCEPT !.stdout = "closed"]
    /\ cmd_pc' = "wait"
    /\ UNCHANGED <<inputVars, fdVars, sideVars, pc, phase, trackVars, logbook,
                   errVars, total_photons, resolved, return_code, cmd_result,
                   cmdCalls, pipe, produced>>

\* advanced mode: readline returns '' (the solver has closed its output and
\* nothing is left in the pipe); the loop ends and stdout is closed
AdvEOF ==
    /\ pc = "cmd"
    /\ cmd_pc = "read"
    /\ pipe = <<>>
    /\ process.state = "exited"
    /\ process' = [process EXCEPT !.stdout = "closed"]
    /\ cmd_pc' = "wait"
    /\ UNCHANGED <<inputVars, fdVars, sideVars, pc, phase, trackVars, logbook,
                   errVars, total_photons, resolved, return_code, cmd_result,
                   cmdCalls, pipe, produced>>

\* advanced mode: return_code = process.wait(); it is logged and checked
AdvWait ==
    /\ pc = "cmd"
    /\ cmd_pc = "wait"
    /\ process.state = "exited"
    /\ return_code' = <<process.rc>>
    /\ IF CommandFailed(process.rc)
       THEN LET r == Trk_log(tracker, Tagged(PlainText))
                ex == Exc("RuntimeError", PlainText, "return_code")
            IN  /\ tracker' = r.t
                /\ trackerOut' = trackerOut + r.out
                /\ afterStop' = NoteCall("log")
                /\ cmdCalls' = Append(cmdCalls,
                                      Call("log", Tagged(PlainText), 0, "exit"))
                /\ trackerErr' = trackerErr + 1
                /\ IF r.exc # NoExc
                   THEN /\ CommandRaises(r.exc)
                        /\ UNCHANGED errorLog
                   ELSE /\ errorLog' = LogError(errorLog, "run_radmc_command", ex)
                        /\ CommandRaises(ex)
       ELSE /\ CommandReturns
            /\ UNCHANGED <<tracker, trackerOut, afterStop, cmdCalls, trackerErr,
                           errorLog>>
    /\ UNCHANGED <<inputVars, fdVars, sideVars, phase, events, stops,
                   summaries, summary, logbook, outcome, printed,
                   total_photons, resolved, procVars>>

(***************************************************************************)
(* The solver process.                                                     *)
(***************************************************************************)
\* the solver writes one line: to the terminal when it inherited stdout, into
\* the pipe when there is room; writing to a pipe the parent has closed
\* kills it with SIGPIPE
ChildWrite ==
    /\ process.state = "running"
    /\ process.written < MaxLines
    /\ \E line \in SolverLines :
          CASE process.stdout = "inherit" ->
                  /\ process' = [process EXCEPT !.written = @ + 1]
                  /\ UNCHANGED <<pipe, produced>>
            [] process.stdout = "pipe" ->
                  /\ Len(pipe) < PipeCap
                  /\ pipe' = Append(pipe, line)
                  /\ produced' = Append(produced, line)
                  /\ process' = [process EXCEPT !.written = @ + 1]
            [] OTHER ->
                  /\ process' = [process EXCEPT !.state = "exited", !.rc = SigPipe]
                  /\ UNCHANGED <<pipe, produced>>
    /\ UNCHANGED <<inputVars, fdVars, sideVars, pc, phase, trackVars, logbook,
                   errVars, cmdVars>>

\* the solver exits with a status of its own choice
ChildExit ==
    /\ process.state = "running"
    /\ \E rc \in ExitCodes :
          process' = [process EXCEPT !.state = "exited", !.rc = rc]
    /\ UNCHANGED <<inputVars, fdVars, sideVars, pc, phase, trackVars, logbook,
                   errVars, cmdVars, pipe, produced>>

Next ==
    \/ TrackerStart
    \/ StartPhase
    \/ PythonBody
    \/ SilencedBody
    \/ SuppressEnter
    \/ SilencedCall
    \/ SuppressExit
    \/ AfterBlock
    \/ RunCommand
    \/ RawCall
    \/ RawCallDone
    \/ AdvTotal
    \/ AdvPopen
    \/ AdvReadLine
    \/ AdvEOF
    \/ AdvWait
    \/ ChildWrite
    \/ ChildExit
    \/ ImagePost
    \/ CompletePhase
    \/ TrackerStop
    \/ LogSimulation
    \/ PrintSummary
    \/ Return
    \/ Except

Spec == Init /\ [][Next]_vars

(***************************************************************************)
(* The tracker interface on its own: a caller that builds either tracker   *)
(* and calls its operations once each, in the order of the interface.      *)
(***************************************************************************)
\* arguments of set_phase_total and update_progress
TrackerNumbers == {-1, 0, 2}

\* arguments of log: plain text, text between matching tags, a closing tag
\* with no opening one, an opening bracket that is never closed, and solver
\* lines as run_radmc_command wraps them
Messages ==
    {PlainText, Tagged(PlainText), CloseTag, LoneBracket,
     DimOpen \o PlainText \o DimClose,
     DimOpen \o CloseTag \o DimClose,
     DimOpen \o LoneBracket \o DimClose}

TrackerInit ==
    /\ ui_mode \in {"advanced", "raw"}
    /\ make_images \in BOOLEAN
    /\ phases = BuildPhases(make_images)
    /\ tracker = IF ui_mode = "advanced"
                 THEN AdvancedPhaseTracker(phases)
                 ELSE RawTracker
    /\ use_silencer = UseSilencer(ui_mode)
    /\ fds = StandardFds
    /\ silencer = NoSilencer
    /\ pc = "t_start"
    /\ phase = None
    /\ events = <<>>
    /\ trackerOut = 0
    /\ stops = 0
    /\ summaries = 0
    /\ summary = <<>>
    /\ afterStop = {}
    /\ logbook = "none"
    /\ e = NoExc
    /\ outcome = [kind |-> "running", exc |-> NoExc]
    /\ errorLog = {}
    /\ trackerErr = 0
    /\ printed = 0
    /\ cmd_pc = "idle"
    /\ total_photons = "None"
    /\ resolved = FALSE
    /\ process = NoProcess
    /\ pipe = <<>>
    /\ produced = <<>>
    /\ return_code = <<>>
    /\ cmd_result = "none"
    /\ cmdCalls = <<>>
    /\ SideIdle

\* what no tracker operation touches
callerFrame == <<inputVars, fdVars, sideVars, afterStop, logbook, outcome, errorLog, trackerErr,
                 printed, cmdVars, procVars>>

\* the tracker after a call that gave r, and where the caller goes: on to
\* next, or out with the exception
TrackerCall(r, next) ==
    /\ tracker' = r.t
    /\ trackerOut' = trackerOut + r.out
    /\ IF r.exc # NoExc
       THEN e' = r.exc /\ pc' = "t_raised"
       ELSE e' = e /\ pc' = next

Call_start ==
    /\ pc = "t_start"
    /\ TrackerCall(Trk_start(tracker), "t_start_phase")
    /\ UNCHANGED <<callerFrame, phase, events, stops, summaries, summary>>

Call_start_phase ==
    /\ pc = "t_start_phase"
    /\ \E p \in {phases[i] : i \in 1..Len(phases)} :
          /\ phase' = p
          /\ TrackerCall(Trk_start_phase(tracker, p), "t_set_phase_total")
          /\ events' = Append(events, <<"start_phase", p>>)
    /\ UNCHANGED <<callerFrame, stops, summaries, summary>>

Call_set_phase_total ==
    /\ pc = "t_set_phase_total"
    /\ \E n \in TrackerNumbers :
          TrackerCall(Trk_set_phase_total(tracker, n), "t_update_progress")
    /\ UNCHANGED <<callerFrame, phase, events, stops, summaries, summary>>

Call_update_progress ==
    /\ pc = "t_update_progress"
    /\ \E k \in TrackerNumbers :
          TrackerCall(Trk_update_progress(tracker, k), "t_log")
    /\ UNCHANGED <<callerFrame, phase, events, stops, summaries, summary>>

Call_log ==
    /\ pc = "t_log"
    /\ \E m \in Messages :
          TrackerCall(Trk_log(tracker, m), "t_complete_phase")
    /\ UNCHANGED <<callerFrame, phase, events, stops, summaries, summary>>

Call_complete_phase ==
    /\ pc = "t_complete_phase"
    /\ TrackerCall(Trk_complete_phase(tracker, phase), "t_stop")
    /\ events' = Append(events, <<"complete_phase", phase>>)
    /\ UNCHANGED <<callerFrame, phase, stops, summaries, summary>>

Call_stop ==
    /\ pc = "t_stop"
    /\ TrackerCall(Trk_stop(tracker), "t_print_summary")
    /\ stops' = stops + 1
    /\ UNCHANGED <<callerFrame, phase, events, summaries, summary>>

\* print_summary on a console that accepts the output
Call_print_summary ==
    /\ pc = "t_print_summary"
    /\ TrackerCall(Trk_print_summary(tracker, TRUE), "t_done")
    /\ summaries' = summaries + 1
    /\ summary' = SummaryRows(tracker)
    /\ UNCHANGED <<callerFrame, phase, events, stops>>

TrackerNext ==
    \/ Call_start
    \/ Call_start_phase
    \/ Call_set_phase_total
    \/ Call_update_progress
    \/ Call_log
    \/ Call_complete_phase
    \/ Call_stop
    \/ Call_print_summary

TrackerSpec == TrackerInit /\ [][TrackerNext]_vars

(***************************************************************************)
(* determine_category on its own: a caller that builds a parameter dict    *)
(* and classifies it, then classifies an equal dict again.                 *)
(***************************************************************************)
\* the run, not started, in raw mode without images
RunIdle ==
    /\ ui_mode = "raw"
    /\ make_images = FALSE
    /\ phases = BuildPhases(make_images)
    /\ tracker = RawTracker
    /\ use_silencer = UseSilencer(ui_mode)
    /\ fds = StandardFds
    /\ silencer = NoSilencer
    /\ pc = "start"
    /\ phase = None
    /\ events = <<>>
    /\ trackerOut = 0
    /\ stops = 0
    /\ summaries = 0
    /\ summary = <<>>
    /\ afterStop = {}
    /\ logbook = "none"
    /\ e = NoExc
    /\ outcome = [kind |-> "running", exc |-> NoExc]
    /\ errorLog = {}
    /\ trackerErr = 0
    /\ printed = 0
    /\ cmd_pc = "idle"
    /\ total_photons = "None"
    /\ resolved = FALSE
    /\ process = NoProcess
    /\ pipe = <<>>
    /\ produced = <<>>
    /\ return_code = <<>>
    /\ cmd_result = "none"
    /\ cmdCalls = <<>>

NamingInit ==
    /\ RunIdle
    /\ LoggingIdle
    /\ LogbookIdle
    /\ MainIdle
    /\ params \in {p \in ParamValues : Cardinality(Present(p)) <= MaxKeys}
    /\ key_order \in KeyOrders
    /\ category = NotCalled
    /\ again = NotCalled

\* category = determine_category(params)
Classify ==
    /\ category = NotCalled
    /\ category' = determine_category(Dict(params, key_order))
    /\ UNCHANGED <<runVars, mainVars, loggingVars, logbookVars, params, key_order,
                   again>>

\* a second call, on a dict with the same items inserted in any order
ClassifyAgain ==
    /\ category # NotCalled
    /\ again = NotCalled
    /\ \E keys \in KeyOrders :
          again' = determine_category(Dict(params, keys))
    /\ UNCHANGED <<runVars, mainVars, loggingVars, logbookVars, params, key_order,
                   category>>

NamingNext ==
    \/ Classify
    \/ ClassifyAgain

NamingSpec == NamingInit /\ [][NamingNext]_vars

(***************************************************************************)
(* Properties.                                                             *)
(***************************************************************************)
\* start_phase(p1), complete_phase(p1), ..., start_phase(pn), complete_phase(pn)
ExpectedEvents(phs) ==
    [i \in 1..(2 * Len(phs)) |->
        IF i % 2 = 1 THEN <<"start_phase", phs[(i + 1) \div 2]>>
        ELSE <<"complete_phase", phs[i \div 2]>>]

IsPrefix(a, b) == Len(a) <= Len(b) /\ SubSeq(b, 1, Len(a)) = a

\* run_single_simulation has raised because of an exception inside a phase
PhaseRaised == outcome.kind = "raised" /\ e.site # "print_summary"

\* the solver of the current command has exited with a nonzero status
SolverFailed == return_code # <<>> /\ return_code[1] # 0

\* C1: when control leaves run_single_simulation, by return or by exception,
\* tracker.stop() has been called exactly once.
C1_StopExactlyOnce ==
    outcome.kind # "running" => stops = 1

\* C2: once a solver invocation has exited with a nonzero status the run is
\* in its except clause or has raised to the caller, and no start_phase, no
\* complete_phase and no solver command follows.
C2_Halted ==
    SolverFailed =>
        /\ pc \in {"except", "done"}
        /\ pc = "done" => outcome.kind = "raised"

C2_FailedAbsorbing ==
    [][/\ C2_Halted'
       /\ SolverFailed =>
            /\ SolverFailed'
            /\ events' = events
            /\ process' = process
            /\ cmd_pc' = "idle"]_vars

C2_Witness ==
    SolverFailed /\ pc = "done" /\ outcome.kind = "raised"

\* C3: the start_phase / complete_phase calls of a run are a prefix of
\* start(p1), complete(p1), ..., start(pn), complete(pn) for the phase list;
\* the whole sequence on success, and ending with the start_phase of the
\* failed phase when a phase failed.
C3_PhaseEvents ==
    /\ IsPrefix(events, ExpectedEvents(phases))
    /\ outcome.kind = "returned" => events = ExpectedEvents(phases)
    /\ PhaseRaised =>
          /\ Len(events) % 2 = 1
          /\ events[Len(events)] = <<"start_phase", phase>>

C3_Witness ==
    /\ PhaseRaised
    /\ phase = "Generate Image"
    /\ Len(events) = 9

\* C4: Generate Image is in the phase list iff make_images was true, it is
\* started only if it is in the list, and a successful run starts it iff it
\* is in the list.
InPhaseList == \E i \in 1..Len(phases) : phases[i] = "Generate Image"

ImageStarted ==
    \E i \in 1..Len(events) : events[i] = <<"start_phase", "Generate Image">>

C4_ImageDecidedOnce ==
    /\ InPhaseList <=> make_images
    /\ ui_mode = "advanced" => tracker.phases = phases
    /\ ImageStarted => InPhaseList
    /\ outcome.kind = "returned" => (ImageStarted <=> InPhaseList)

C4_Witness ==
    outcome.kind = "returned" /\ ImageStarted

\* C5 as claimed: an exception raised inside a phase has been reported
\* through tracker.log and through logging.error before it reaches the caller.
C5_LoggedToTrackerAndFile ==
    PhaseRaised =>
        /\ trackerErr > 0
        /\ <<"run_single_simulation", e.site>> \in errorLog

\* C5 as amended: an exception raised inside a phase has been written with
\* logging.error and handed to print_error once before it reaches the caller;
\* tracker.log has reported it exactly when it is a nonzero solver exit in
\* advanced mode.
C5_LoggedToFileAndConsole ==
    PhaseRaised =>
        /\ <<"run_single_simulation", e.site>> \in errorLog
        /\ printed = 1
        /\ trackerErr > 0 <=> (ui_mode = "advanced" /\ e.site = "return_code")

C5_Witness ==
    PhaseRaised /\ e.type = "KeyError" /\ phase = "Configure Model"

\* C6: when a phase raises, the caller receives that same exception, and the
\* run has made no log_simulation call and no print_summary call.
C6_SameExceptionNoSuccess ==
    PhaseRaised =>
        /\ outcome.exc = e
        /\ logbook = "none"
        /\ summaries = 0

\* C7: print_summary is never called before stop(), it is called at most
\* once, no tracker operation other than print_summary is called after
\* stop(), and a run that returns has called stop() and print_summary once.
C7_StopThenSummary ==
    /\ afterStop \subseteq {"print_summary"}
    /\ summaries > 0 => stops >= 1
    /\ summaries <= 1
    /\ outcome.kind = "returned" => (stops = 1 /\ summaries = 1)

\* C8: log_simulation is called only after every phase has completed and the
\* tracker was stopped; whatever it does, control goes on to print_summary
\* with no exception pending and no further stop(), and a run whose logbook
\* call raised and whose summary was rendered returns with one stop().
C8_State ==
    /\ logbook # "none" => (events = ExpectedEvents(phases) /\ stops >= 1)
    /\ (logbook = "raised" /\ outcome.kind # "running" /\ e = NoExc) =>
          (outcome.kind = "returned" /\ stops = 1 /\ summaries = 1)

C8_LogbookSwallowed ==
    [][/\ C8_State'
       /\ pc = "logbook" =>
            /\ pc' = "summary"
            /\ stops' = stops
            /\ e' = NoExc
            /\ outcome' = outcome]_vars

C8_Witness ==
    logbook = "raised" /\ outcome.kind = "returned"

\* C9: run_radmc_command returns normally iff the executable resolved and the
\* solver exited with status 0; if the executable does not resolve no process
\* was started and no tracker operation called; a raise for a nonzero status
\* comes after the process has exited.
ExitedZero == process.state = "exited" /\ process.rc = 0

C9_ReturnsIffResolvedAndZero ==
    /\ cmd_result = "returned" => (resolved /\ ExitedZero)
    /\ cmd_result = "raised" => ~(resolved /\ ExitedZero)
    /\ (cmd_result = "raised" /\ ~resolved) =>
          (process = NoProcess /\ cmdCalls = <<>>)
    /\ (cmd_result = "raised" /\ SolverFailed) => process.state = "exited"

\* C10: with RawTracker the tracker's only output is one marker per
\* start_phase and complete_phase; start, stop, log, set_phase_total,
\* update_progress and print_summary print nothing and leave the tracker as
\* it is; run_radmc_command calls no tracker operation and the solver's
\* output never goes through a pipe.
C10_RawPassthrough ==
    ui_mode = "raw" =>
        /\ tracker = RawTracker
        /\ trackerOut = Len(events)
        /\ cmdCalls = <<>>
        /\ pipe = <<>>
        /\ process.stdout \in {"none", "inherit"}
        /\ Trk_start(tracker) = Ret(tracker, 0)
        /\ Trk_stop(tracker) = Ret(tracker, 0)
        /\ \A ok \in BOOLEAN : Trk_print_summary(tracker, ok) = Ret(tracker, 0)
        /\ \A l \in SolverLines :
              Trk_log(tracker, DimOpen \o l.text \o DimClose) = Ret(tracker, 0)
        /\ \A n \in {-1, 0, 2} :
              /\ Trk_set_phase_total(tracker, n) = Ret(tracker, 0)
              /\ Trk_update_progress(tracker, n) = Ret(tracker, 0)
        /\ \A p \in PhaseNames :
              /\ Trk_start_phase(tracker, p) = Ret(tracker, 1)
              /\ Trk_complete_phase(tracker, p) = Ret(tracker, 1)

C10_Witness ==
    /\ ui_mode = "raw"
    /\ cmd_result = "returned"
    /\ process.written = MaxLines
    /\ Truthy(total_photons)
    /\ pc = "done"

\* the solver lines that run_radmc_command has passed to tracker.log
Forwarded ==
    LET calls == SelectSeq(cmdCalls,
                           LAMBDA c : c.op = "log" /\ c.origin = "line")
    IN  [i \in 1..Len(calls) |-> calls[i].msg]

\* the non-blank lines among lines, each as run_radmc_command forwards it
Wrapped(lines) ==
    LET kept == SelectSeq(lines, LAMBDA l : l.text # Blank)
    IN  [i \in 1..Len(kept) |-> DimOpen \o kept[i].text \o DimClose]

\* C11: in advanced mode the lines passed to tracker.log are, in order and
\* once each, the non-blank lines the solver has written, never a blank one;
\* all of them have been passed when the exit status is examined and when
\* run_radmc_command is left.
C11_EveryLineForwarded ==
    ui_mode = "advanced" =>
        /\ IsPrefix(Forwarded, Wrapped(produced))
        /\ return_code # <<>> => Forwarded = Wrapped(produced)
        /\ cmd_result # "none" => Forwarded = Wrapped(produced)

\* run_radmc_command takes a non-blank line from the pipe
ReadsLine == pc = "cmd" /\ cmd_pc = "read" /\ pipe # <<>> /\ cmdCalls' # cmdCalls

\* the tracker operations called for the line that is being read
NewCalls == SubSeq(cmdCalls', Len(cmdCalls) + 1, Len(cmdCalls'))

UpdateCalled(n) ==
    \E i \in 1..Len(NewCalls) :
        NewCalls[i] = Call("update_progress", Blank, n, "line")

NoUpdateCalled ==
    /\ \A i \in 1..Len(NewCalls) : NewCalls[i].op # "update_progress"
    /\ tracker'.task_completed = tracker.task_completed

TotalHandled ==
    /\ ui_mode = "advanced"
    /\ resolved
    /\ Truthy(total_photons)
    /\ cmd_pc \in {"popen", "read", "wait"} \/ cmd_result # "none"

\* C13: a supplied expected total that converts to an integer has been given
\* to set_phase_total before the solver is started; for one that does not
\* convert, a warning went to tracker.log, set_phase_total was not called, no
\* exception came out of the conversion and the solver was still started.
C13_TotalSetOrWarned ==
    TotalHandled =>
        LET c == IntFloat(total_photons)
        IN  /\ cmd_pc = "popen" => process.state = "none"
            /\ c.ok =>
                 /\ cmdCalls # <<>>
                 /\ cmdCalls[1] = Call("set_phase_total", Blank, c.value, "total")
            /\ ~c.ok =>
                 /\ cmdCalls # <<>>
                 /\ cmdCalls[1] = Call("log", Tagged(PlainText), 0, "total")
                 /\ \A i \in 1..Len(cmdCalls) : cmdCalls[i].op # "set_phase_total"
                 /\ ~(cmd_result = "raised" /\ e.site = "total_photons")
                 /\ cmd_result # "none" => process.state # "none"

\* the last tracker operation of run_radmc_command was set_phase_total
AfterSetPhaseTotal ==
    /\ ui_mode = "advanced"
    /\ cmd_pc = "popen"
    /\ cmdCalls # <<>>
    /\ cmdCalls[Len(cmdCalls)].op = "set_phase_total"

\* C14: right after set_phase_total(n) the phase task has total n and
\* completed 0 when n >= 0, and no total when n < 0; the call raises nothing.
C14_BoundedOrIndeterminate ==
    AfterSetPhaseTotal =>
        LET n == cmdCalls[Len(cmdCalls)].n
        IN  /\ Trk_set_phase_total(tracker, n).exc = NoExc
            /\ IF n >= 0
               THEN tracker.task_total = <<n>> /\ tracker.task_completed = 0
               ELSE tracker.task_total = <<>>

\* the last start_phase / complete_phase call was a complete_phase that
\* returned, in advanced mode
AfterCompletePhase ==
    /\ ui_mode = "advanced"
    /\ events # <<>>
    /\ events[Len(events)][1] = "complete_phase"

\* C15: after complete_phase(name) of the started phase, name has a recorded
\* time, the overall counter is the phase's index plus one, and the phase
\* task's completed count equals the total that was set for it.
C15_PhaseCompleted ==
    AfterCompletePhase =>
        LET name == events[Len(events)][2]
        IN  /\ name \in tracker.phase_times
            /\ tracker.overall_completed = IndexOf(tracker.phases, name) + 1
            /\ tracker.task_total # <<>> =>
                  tracker.task_completed = tracker.task_total[1]

\* C17: the operations of either tracker, called in the order start,
\* start_phase, set_phase_total, update_progress, log, complete_phase, stop,
\* print_summary, raise no exception.
C17_NoTrackerException ==
    e = NoExc /\ pc # "t_raised"

\* start_phase, or complete_phase, was called for phase p and returned
Started(p) == \E i \in 1..Len(events) : events[i] = <<"start_phase", p>>
Completed(p) == \E i \in 1..Len(events) : events[i] = <<"complete_phase", p>>

\* C16 as claimed: the summary has one row for each of the six phases of the
\* pipeline, in order, with the time of a phase that was started and
\* "skipped" for the others, Generate Image among them when no image was
\* asked for.
C16_RowForEveryPipelinePhase ==
    summary # <<>> =>
        summary = [i \in 1..Len(BuildPhases(TRUE)) |->
                     <<BuildPhases(TRUE)[i],
                       IF Started(BuildPhases(TRUE)[i])
                       THEN "time" ELSE "skipped">>]

\* C16 as amended: the summary has one row for each phase of the list the
\* tracker was built with, in order, with the time of a phase that was
\* completed and "skipped" for the others; Generate Image has a row exactly
\* when make_images was true.
C16_RowForEveryListedPhase ==
    summary # <<>> =>
        /\ summary = [i \in 1..Len(phases) |->
                        <<phases[i],
                          IF Completed(phases[i]) THEN "time" ELSE "skipped">>]
        /\ make_images <=>
              \E i \in 1..Len(summary) : summary[i][1] = "Generate Image"

C16_Witness ==
    /\ ~make_images
    /\ Len(summary) = 5
    /\ summary[1] = <<"Setup", "skipped">>
    /\ summary[3] = <<"MC Thermal", "time">>

\* C18: for every non-blank line the solver has written, what log hands to
\* the console for the wrapped line is the line with each "[" of the solver's
\* text escaped, and log does not raise; no MarkupError has come out of log.
C18_SolverTextEscaped ==
    ui_mode = "advanced" =>
        /\ \A i \in 1..Len(produced) :
              LET text == produced[i].text
                  message == DimOpen \o text \o DimClose
              IN  text # Blank =>
                    /\ LogEscape(message)
                         = DimOpen \o ReplaceBracket(text) \o DimClose
                    /\ Trk_log(tracker, message).exc = NoExc
        /\ ~(e.type = "MarkupError" /\ e.site = "log")

\* descriptor 1 or 2 refers to the null device
Redirected == fds[1] = "devnull" \/ fds[2] = "devnull"

\* control is inside a suppress_output block: the wrapped call is executing
\* or has just ended and the finally clause has not run yet
InBlock == pc \in {"inside", "unsuppress"}

\* C19: descriptors 1 and 2 refer to the null device only in advanced mode
\* and only inside the block that wraps writeDefaultParfile (Setup) or
\* problemSetupDust (Configure Model); then no run_radmc_command is under way and no
\* solver is running, and no step taken while they are redirected calls a
\* tracker operation or starts a solver.
C19_State ==
    Redirected =>
        /\ ui_mode = "advanced"
        /\ InBlock
        /\ phase \in {"Setup", "Configure Model"}
        /\ cmd_pc = "idle"
        /\ process.state # "running"

C19_RedirectedOnlyInBlock ==
    [][/\ C19_State
       /\ C19_State'
       /\ Redirected => UNCHANGED <<trackVars, cmdVars, procVars>>]_vars

C19_Witness ==
    /\ fds[1] = "devnull"
    /\ fds[2] = "devnull"
    /\ pc = "inside"
    /\ phase = "Configure Model"
    /\ events = <<<<"start_phase", "Setup">>, <<"complete_phase", "Setup">>,
                  <<"start_phase", "Configure Model">>>>

\* C20: outside a suppress_output block descriptors 1 and 2 refer to what
\* they referred to before it and every other descriptor is closed; the step
\* that ends a block restores 1 and 2 from the saved duplicates, closes the
\* duplicates and the null device, and hands an exception raised in the
\* block, unchanged, to the caller's except clause.
C20_State ==
    ~InBlock => (fds = StandardFds /\ silencer = NoSilencer)

C20_RestoredAndPropagated ==
    [][/\ C20_State
       /\ C20_State'
       /\ pc = "unsuppress" =>
            /\ fds'[1] = fds[silencer.old_stdout]
            /\ fds'[2] = fds[silencer.old_stderr]
            /\ \A d \in Descriptors \ {1, 2} : fds'[d] = "closed"
            /\ e' = e
            /\ e # NoExc <=> pc' = "except"]_vars

C20_Witness ==
    /\ pc = "except"
    /\ e.site = "problemSetupDust"
    /\ fds = StandardFds

(***************************************************************************)
(* The feature predicates as the specification states them: an absent      *)
(* parameter is inactive and a number counts as a one-element list.        *)
(***************************************************************************)
SomePositive(x) == \E i \in 1..Len(x.v) : x.v[i] > 0
SomeNonzero(x) == \E i \in 1..Len(x.v) : x.v[i] # 0

SpiralActive(p) == SomePositive(p.h_spiral_amp) \/ SomePositive(p.sig_spiral_amp)
VortexActive(p) == SomePositive(p.h_vortex_amp) \/ SomePositive(p.sig_vortex_amp)
FourierActive(p) ==
    \/ SomeNonzero(p.h_fourier_aj)
    \/ SomeNonzero(p.h_fourier_bj)
    \/ SomeNonzero(p.sig_fourier_aj)
    \/ SomeNonzero(p.sig_fourier_bj)
WarpActive(p) == p.enable_warp = Bool(TRUE)
InnerEdgeActive(p) == p.use_inner_edge_shadow = Bool(TRUE)
DampingActive(p) == p.use_radial_damping = Bool(TRUE)

\* "spiral", or "spiral_<n_arms>arms" when an arm count > 0 is present
SpiralToken(p) ==
    IF SomePositive(p.n_arms)
    THEN "spiral_" \o ToString(p.n_arms.v[1]) \o "arms"
    ELSE "spiral"

ExpectedTokens(p) ==
    (IF SpiralActive(p) THEN <<SpiralToken(p)>> ELSE <<>>)
    \o (IF VortexActive(p) THEN <<"vortex">> ELSE <<>>)
    \o (IF FourierActive(p) THEN <<"fourier">> ELSE <<>>)
    \o (IF WarpActive(p) THEN <<"warp">> ELSE <<>>)
    \o (IF InnerEdgeActive(p) THEN <<"inner_edge">> ELSE <<>>)
    \o (IF DampingActive(p) THEN <<"damping">> ELSE <<>>)

\* C21: determine_category returns "baseline" when no feature is active,
\* the one token when one is, and "combined_" with the tokens joined by "_"
\* in the order spiral, vortex, fourier, warp, inner_edge, damping when two
\* or more are.
C21_CompositionRule ==
    category # NotCalled =>
        LET t == ExpectedTokens(params)
        IN  category = Returned(IF Len(t) = 0 THEN "baseline"
                                ELSE IF Len(t) = 1 THEN t[1]
                                ELSE "combined_" \o Join(t))

\* spiral and warp are active and no other feature is
SpiralAndWarpOnly(p) ==
    /\ SpiralActive(p)
    /\ WarpActive(p)
    /\ ~VortexActive(p)
    /\ ~FourierActive(p)
    /\ ~InnerEdgeActive(p)
    /\ ~DampingActive(p)

\* one vortex amplitude is a number and the other a list (an absent one
\* counts as the default list)
ListLike(x) == x.kind \in {"absent", "vector"}
MixedVortex(p) == ListLike(p.h_vortex_amp) # ListLike(p.sig_vortex_amp)

C23_NeverRaises ==
    category # NotCalled => category.exc = None

\* C24: a second call on an equal mapping, in any insertion order of the
\* keys, gives the same result as the first.
C24_Deterministic ==
    again # NotCalled => again = category

C24_Witness ==
    /\ Cardinality(Present(params)) >= 2
    /\ key_order = Reverse(FeatureKeys)
    /\ category.exc = None
    /\ Len(ExpectedTokens(params)) >= 2
    /\ again # NotCalled
    /\ again = category

(***************************************************************************)
(* Logging (main.py setup_logging, the logging helpers of single_run.py).  *)
(* The records go through the module-level functions of logging, that is   *)
(* through the root logger of the process.  A log file is named by the     *)
(* number of the run whose directory it is in; Stderr is the stream the    *)
(* handler of an argument-less basicConfig() writes.                       *)
(***************************************************************************)
Stderr == "stderr"

\* log_file = os.path.join(run_dir, f"log_{timestamp}_{name}.txt")
LogFile(r) == r

\* logging.basicConfig(filename=log_file, ...): without force=True it does
\* nothing when the root logger already has handlers
basicConfig(handlers, file) ==
    IF handlers = <<>> THEN <<file>> ELSE handlers

\* what the helpers of single_run.py and the run modes log
RecordKinds == {"PHASE_START", "PHASE_END", "CMD", "RETURN_CODE", "DURATION"}

\* logging.info(msg): the root logger gets a stderr handler if it has none,
\* then every handler writes the record
logging_info(handlers, r, kind) ==
    LET hs == IF handlers = <<>> THEN <<Stderr>> ELSE handlers
    IN  [handlers |-> hs,
         written |-> [i \in 1..Len(hs) |->
                         [run |-> r, kind |-> kind, file |-> hs[i]]]]

LoggingInit ==
    /\ RunIdle
    /\ NamingIdle
    /\ LogbookIdle
    /\ MainIdle
    /\ LoggingIdle

\* a run begins: os.makedirs(run_dir), setup_logging(run_dir, name, timestamp)
SetupLogging ==
    /\ run < MaxRuns
    /\ run' = run + 1
    /\ root_handlers' = basicConfig(root_handlers, LogFile(run + 1))
    /\ UNCHANGED <<runVars, mainVars, namingVars, logbookVars, records>>

\* a record is logged during the run
LogInfo ==
    /\ run >= 1
    /\ Len(records) < MaxRecords
    /\ \E kind \in RecordKinds :
          LET r == logging_info(root_handlers, run, kind)
          IN  /\ root_handlers' = r.handlers
              /\ records' = records \o r.written
    /\ UNCHANGED <<runVars, mainVars, namingVars, logbookVars, run>>

LoggingNext ==
    \/ SetupLogging
    \/ LogInfo

LoggingSpec == LoggingInit /\ [][LoggingNext]_vars

\* C25: every record emitted during a run is written to that run's own log
\* file, never to the log file configured for an earlier run of the process.
C25_OwnLogFile ==
    \A i \in 1..Len(records) : records[i].file = LogFile(records[i].run)

(***************************************************************************)
(* The parent and the solver around the pipe.  A solver that has more to   *)
(* write than the pipe holds is blocked until the parent reads.            *)
(***************************************************************************)
ChildBlocked == process.stdout = "pipe" /\ Len(pipe) >= PipeCap

\* the parent is in process.wait()
Waiting == pc = "cmd" /\ cmd_pc = "wait"
\* the parent is in the loop over process.stdout.readline
Reading == pc = "cmd" /\ cmd_pc = "read"

\* the parent can take its next step (readline returns a line, readline
\* returns '', wait returns), or the solver is running unblocked and so on
\* its way to closing its output and exiting
CanProgress ==
    \/ Reading /\ pipe # <<>>
    \/ Reading /\ pipe = <<>> /\ process.state = "exited"
    \/ Waiting /\ process.state = "exited"
    \/ process.state = "running" /\ ~ChildBlocked

NoFile == [exists |-> FALSE, rows |-> <<>>]
File(rows) == [exists |-> TRUE, rows |-> rows]

\* the logbooks a call may find: none, an empty one, one holding a row
InitialLogbooks == {NoFile, File(<<>>), File(<<0>>)}

LogbookInit ==
    /\ RunIdle
    /\ NamingIdle
    /\ LoggingIdle
    /\ MainIdle
    /\ central \in InitialLogbooks
    /\ lock = 0
    /\ lb_pc = [p \in Procs |-> "idle"]
    /\ updated_df = [p \in Procs |-> <<>>]
    /\ backup = [p \in Procs |-> <<>>]

logbookFrame == <<runVars, mainVars, namingVars, loggingVars>>

\* add_simulation is called: row_data, new_row, lock = FileLock(..., timeout=10)
AddSimulation(p) ==
    /\ lb_pc[p] = "idle"
    /\ lb_pc' = [lb_pc EXCEPT ![p] = "acquire"]
    /\ UNCHANGED <<logbookFrame, central, lock, updated_df, backup>>

\* an acquire that does not look at the holder
Acquire_unlocked(p) ==
    /\ lb_pc[p] = "acquire"
    /\ lock' = p
    /\ lb_pc' = [lb_pc EXCEPT ![p] = "read"]
    /\ UNCHANGED <<logbookFrame, central, updated_df, backup>>

\* "with lock:" the lock is free and p takes it
Acquire(p) ==
    /\ lb_pc[p] = "acquire"
    /\ lock = 0
    /\ lock' = p
    /\ lb_pc' = [lb_pc EXCEPT ![p] = "read"]
    /\ UNCHANGED <<logbookFrame, central, updated_df, backup>>

\* "with lock:" another process has held the lock for the whole timeout:
\* Timeout is raised and caught by "except Exception"
AcquireTimeout(p) ==
    /\ lb_pc[p] = "acquire"
    /\ lock \notin {0, p}
    /\ lb_pc' = [lb_pc EXCEPT ![p] = "backup"]
    /\ UNCHANGED <<logbookFrame, central, lock, updated_df, backup>>

\* "if os.path.exists(...): try: existing_df = pd.read_excel(...);
\* updated_df = pd.concat([existing_df, new_row]) except Exception:
\* updated_df = new_row  else: updated_df = new_row"
ReadLogbook(p) ==
    /\ lb_pc[p] = "read"
    /\ \E readable \in BOOLEAN :
          updated_df' = [updated_df EXCEPT ![p] =
                            IF central.exists /\ readable
                            THEN Append(central.rows, p)
                            ELSE <<p>>]
    /\ lb_pc' = [lb_pc EXCEPT ![p] = "write"]
    /\ UNCHANGED <<logbookFrame, central, lock, backup>>

\* "updated_df.to_excel(self.logbook_path, ...); updated_df.to_csv(...)" and
\* the end of the with block, which releases the lock; a write that raises
\* leaves the block through "except Exception"
WriteLogbook(p) ==
    /\ lb_pc[p] = "write"
    /\ \E written \in BOOLEAN :
          IF written
          THEN /\ central' = File(updated_df[p])
               /\ lb_pc' = [lb_pc EXCEPT ![p] = "done"]
          ELSE /\ central' = central
               /\ lb_pc' = [lb_pc EXCEPT ![p] = "backup"]
    /\ lock' = 0
    /\ UNCHANGED <<logbookFrame, updated_df, backup>>

\* "backup_path = os.path.join(run_dir, f'logbook_backup_{timestamp}.xlsx');
\* new_row.to_excel(backup_path, ...)"
SaveBackup(p) ==
    /\ lb_pc[p] = "backup"
    /\ backup' = [backup EXCEPT ![p] = <<p>>]
    /\ lb_pc' = [lb_pc EXCEPT ![p] = "done"]
    /\ UNCHANGED <<logbookFrame, central, lock, updated_df>>

LogbookNext ==
    \E p \in Procs :
        \/ AddSimulation(p)
        \/ Acquire(p)
        \/ AcquireTimeout(p)
        \/ ReadLogbook(p)
        \/ WriteLogbook(p)
        \/ SaveBackup(p)

LogbookSpec == LogbookInit /\ [][LogbookNext]_vars

InSeq(x, s) == \E i \in 1..Len(s) : s[i] = x

\* process p's add_simulation ends in this step
Ends(p) == lb_pc[p] # "done" /\ lb_pc'[p] = "done"

\* C28: an add_simulation on an existing logbook leaves the rows it held
\* unchanged and puts the new row after them, or, when the central file
\* cannot be updated, leaves the file as it was and saves the new row to the
\* backup file of the run: rows logged earlier are never removed or replaced.
C28_AppendOnly ==
    [][/\ central.exists => /\ central'.exists
                            /\ IsPrefix(central.rows, central'.rows)
       /\ \A p \in Procs :
             Ends(p) => \/ central'.rows = Append(central.rows, p)
                        \/ central' = central /\ backup'[p] = <<p>>]_vars

\* the processes inside the with block
InBlock29(p) == lb_pc[p] \in {"read", "write"}

param_combinations ==
    <<"baseline", "spiral_weak", "spiral_strong", "vortex", "highmass", "flared">>

\* what the user may type: a name or nothing, a configuration that is found
\* or not, and a run mode
UserInputs ==
    [name : {"", "run"}, config_found : BOOLEAN, mode_choice : {"1", "2", "9"}]

\* the parameters of the configuration: none of the features, or a vortex
\* amplitude given as a number
ConfigParams ==
    {p \in ParamValues :
        /\ \A k \in DOMAIN p : k # "sig_vortex_amp" => p[k] = Absent
        /\ p.sig_vortex_amp \in {Absent, Scalar(0)}}

\* def get_params_dict(config_module): the number of arguments it needs
get_params_dict_arity == 1

\* a call of get_params_dict with nargs positional arguments
get_params_dict(nargs) ==
    IF nargs = get_params_dict_arity THEN Returned("params") ELSE Raised("TypeError")

MainInit ==
    /\ ui_mode \in {"advanced", "raw"}
    /\ make_images \in BOOLEAN
    /\ phases = BuildPhases(make_images)
    /\ tracker = IF ui_mode = "advanced"
                 THEN AdvancedPhaseTracker(phases)
                 ELSE RawTracker
    /\ use_silencer = UseSilencer(ui_mode)
    /\ fds = StandardFds
    /\ silencer = NoSilencer
    /\ pc = "not_called"
    /\ phase = None
    /\ events = <<>>
    /\ trackerOut = 0
    /\ stops = 0
    /\ summaries = 0
    /\ summary = <<>>
    /\ afterStop = {}
    /\ logbook = "none"
    /\ e = NoExc
    /\ outcome = [kind |-> "running", exc |-> NoExc]
    /\ errorLog = {}
    /\ trackerErr = 0
    /\ printed = 0
    /\ cmd_pc = "idle"
    /\ total_photons = "None"
    /\ resolved = FALSE
    /\ process = NoProcess
    /\ pipe = <<>>
    /\ produced = <<>>
    /\ return_code = <<>>
    /\ cmd_result = "none"
    /\ cmdCalls = <<>>
    /\ params \in ConfigParams
    /\ key_order = FeatureKeys
    /\ category = NotCalled
    /\ again = NotCalled
    /\ LoggingIdle
    /\ LogbookIdle
    /\ user \in UserInputs
    /\ main_pc = "inputs"
    /\ run_mode = None
    /\ simulations = <<>>
    /\ top_exc = None
    /\ exit_code = <<>>

\* the program ends: with status 0, or with status 1 and the exception that
\* nobody caught
Exits(code, exc) ==
    /\ main_pc' = "exited"
    /\ exit_code' = <<code>>
    /\ top_exc' = exc

\* user_inputs = get_user_inputs(); the dispatch on run_mode
GetUserInputs ==
    /\ main_pc = "inputs"
    /\ IF \/ user.name = ""
          \/ ~user.config_found
          \/ user.mode_choice \notin {"1", "2"}
       THEN /\ Exits(1, "SystemExit")
            /\ UNCHANGED run_mode
       ELSE /\ run_mode' = IF user.mode_choice = "1" THEN "single" ELSE "batch"
            /\ main_pc' = run_mode'
            /\ UNCHANGED <<top_exc, exit_code>>
    /\ UNCHANGED <<runVars, namingVars, loggingVars, logbookVars, user,
                   simulations>>

\* run_single_mode: get_params_dict(config), generate_run_directory and
\* determine_category(params)
SingleNaming ==
    /\ main_pc = "single"
    /\ LET got == get_params_dict(1)
           c == determine_category(Dict(params, key_order))
       IN  /\ category' = c
           /\ IF got.exc # None THEN Exits(1, got.exc)
              ELSE IF c.exc # None THEN Exits(1, c.exc)
              ELSE /\ main_pc' = "logging"
                   /\ UNCHANGED <<top_exc, exit_code>>
    /\ UNCHANGED <<runVars, loggingVars, logbookVars, params, key_order, again,
                   user, run_mode, simulations>>

\* run_single_mode: os.makedirs(run_dir); setup_logging(...); the
\* logging.info calls before the simulation, taken as one record
SingleLogging ==
    /\ main_pc = "logging"
    /\ run' = run + 1
    /\ LET hs == basicConfig(root_handlers, LogFile(run + 1))
           r == logging_info(hs, run + 1, "CMD")
       IN  /\ root_handlers' = r.handlers
           /\ records' = records \o r.written
    /\ main_pc' = "simulate"
    /\ UNCHANGED <<runVars, namingVars, logbookVars, user, run_mode,
                   simulations, top_exc, exit_code>>

\* run_single_mode: run_single_simulation(...) is called
CallSimulation ==
    /\ main_pc = "simulate"
    /\ pc = "not_called"
    /\ pc' = "start"
    /\ simulations' = Append(simulations, "single")
    /\ main_pc' = "simulating"
    /\ UNCHANGED <<inputVars, fdVars, trackVars, errVars, cmdVars, procVars,
                   phase, logbook, namingVars, loggingVars, logbookVars, user,
                   run_mode, top_exc, exit_code>>

\* run_single_mode after the call: an exception of the simulation is not
\* caught here or in main(); after a return come create_all_plots, the
\* copies, logging.info and print_success, any of which may raise
AfterSimulation ==
    /\ main_pc = "simulating"
    /\ pc = "done"
    /\ IF outcome.kind = "raised"
       THEN Exits(1, outcome.exc.type)
       ELSE \E post_ok \in BOOLEAN :
               IF post_ok THEN Exits(0, None) ELSE Exits(1, "Exception")
    /\ UNCHANGED <<runVars, namingVars, loggingVars, logbookVars, user,
                   run_mode, simulations>>

\* run_batch_mode: "base_params = get_params_dict()" is a call without the
\* argument get_params_dict needs; the loop over param_combinations that
\* follows is never entered
BatchMode ==
    /\ main_pc = "batch"
    /\ LET got == get_params_dict(0)
       IN  IF got.exc # None
           THEN Exits(1, got.exc)
           ELSE /\ main_pc' = "loop"
                /\ UNCHANGED <<top_exc, exit_code>>
    /\ UNCHANGED <<runVars, namingVars, loggingVars, logbookVars, user,
                   run_mode, simulations>>

MainNext ==
    \/ GetUserInputs
    \/ SingleNaming
    \/ SingleLogging
    \/ CallSimulation
    \/ AfterSimulation
    \/ BatchMode
    \/ Next

MainSpec == MainInit /\ [][MainNext]_vars

\* C30: a run_batch_mode that has ended has attempted one simulation for
\* every entry of param_combinations, in the order of the list.
C30_OneSimulationPerCombination ==
    (main_pc = "exited" /\ run_mode = "batch") =>
        /\ Len(simulations) = Len(param_combinations)
        /\ \A i \in 1..Len(simulations) : simulations[i] = param_combinations[i]

====
